---------------------------- MODULE Spec2Model ----------------------------
(***************************************************************************)
(* Model of src/routes/+page.svelte of the WetBulbCalculator: the pure     *)
(* estimator calculateWetBulb (Stull 2011), the reactive statement that    *)
(* recomputes wetBulb, and the theme logic (updateTheme, onMount,          *)
(* onDestroy, mediaQueryHandler, clearStoredTheme).                        *)
(*                                                                         *)
(* JavaScript numbers are modelled as tagged records.  A finite number is  *)
(* a fixed-point integer counting millionths (FxScale), so 25.0 is         *)
(* 25000000; NaN, the two infinities and null are separate tags.  Math.sqrt*)
(* and Math.atan are computed (integer Newton iteration; fdlibm-style      *)
(* argument reduction followed by the arctangent series), truncating at    *)
(* the sixth decimal.                                                      *)
(***************************************************************************)
EXTENDS Integers, Sequences, FiniteSets, TLC

-----------------------------------------------------------------------------
(* The state of the page component *)

VARIABLES
    browser,            \* $app/environment: TRUE in the browser, FALSE when server-rendering
    phase,              \* position in the component's life
    temperature,        \* let temperature
    humidity,           \* let humidity
    wetBulb,            \* $: wetBulb
    shown,              \* the text rendered by {formatNumber(wetBulb)}
    isDark,             \* let isDark
    mediaQuery,         \* let mediaQuery: "null" or the MediaQueryList
    mediaQueryHandler,  \* let mediaQueryHandler: "null" or the closure made in onMount
    listeners,          \* 'change' listeners registered on the MediaQueryList
    storage,            \* localStorage.getItem('theme'); "none" for null
    documentElement,    \* class 'dark' and style.colorScheme of <html>
    systemDark,         \* (prefers-color-scheme: dark) currently matches
    dirty,              \* component variables invalidated since the last flush
    last,               \* the last handler that ran
    memo,               \* an earlier call of calculateWetBulb: arguments and result
    themeAtLoad         \* the stored theme when the page started loading

vars == <<browser, phase, temperature, humidity, wetBulb, shown, isDark,
          mediaQuery, mediaQueryHandler, listeners, storage, documentElement,
          systemDark, dirty, last, memo, themeAtLoad>>

-----------------------------------------------------------------------------
(* JavaScript values *)

FxScale == 1000000

Num(n) == [k |-> "fin", v |-> n]

NaN == [k |-> "nan", v |-> 0]

PosInfinity == [k |-> "inf", v |-> 1]

NegInfinity == [k |-> "inf", v |-> -1]

Null == [k |-> "null", v |-> 0]

Abs(n) == IF n < 0 THEN -n ELSE n

Sgn(n) == IF n < 0 THEN -1 ELSE 1

-----------------------------------------------------------------------------
(* Fixed-point arithmetic on the magnitudes.  TLC's integers are 32 bits   *)
(* wide, so products and quotients are formed limb by limb.                *)

Limb(a, i) == CASE i = 0 -> a % 1000
                [] i = 1 -> (a \div 1000) % 1000
                [] i = 2 -> (a \div 1000000) % 1000
                [] OTHER -> a \div 1000000000

\* floor(a * b / FxScale) for a, b >= 0
MulAbs(a, b) ==
    LET c0 == Limb(a,0) * Limb(b,0)
        c1 == Limb(a,0) * Limb(b,1) + Limb(a,1) * Limb(b,0)
        c2 == Limb(a,0) * Limb(b,2) + Limb(a,1) * Limb(b,1) + Limb(a,2) * Limb(b,0)
        c3 == Limb(a,0) * Limb(b,3) + Limb(a,1) * Limb(b,2)
              + Limb(a,2) * Limb(b,1) + Limb(a,3) * Limb(b,0)
        c4 == Limb(a,1) * Limb(b,3) + Limb(a,2) * Limb(b,2) + Limb(a,3) * Limb(b,1)
        c5 == Limb(a,2) * Limb(b,3) + Limb(a,3) * Limb(b,2)
    IN  ((c1 * 1000 + c0) \div 1000000) + c2 + c3 * 1000 + c4 * 1000000
        + c5 * 1000000000

MulFx(a, b) == Sgn(a) * Sgn(b) * MulAbs(Abs(a), Abs(b))

RECURSIVE DivDigits(_, _, _, _, _)
DivDigits(r, b, radix, n, acc) ==
    IF n = 0 THEN <<acc, r>>
    ELSE DivDigits((r * radix) % b, b, radix, n - 1,
                   acc * radix + ((r * radix) \div b))

\* floor(a * FxScale / b) for a >= 0, b > 0  (FxScale = 5^6 * 2^6)
DivAbs(a, b) ==
    LET fives == DivDigits(a % b, b, 5, 6, a \div b)
        twos  == DivDigits(fives[2], b, 2, 6, fives[1])
    IN  twos[1]

DivFx(a, b) == Sgn(a) * Sgn(b) * DivAbs(Abs(a), Abs(b))

RECURSIVE NewtonSqrt(_, _)
NewtonSqrt(v, r) ==
    LET next == (r + DivAbs(v, r)) \div 2
    IN  IF next >= r THEN r ELSE NewtonSqrt(v, next)

\* floor(sqrt(v / FxScale) * FxScale) for v >= 0
SqrtFx(v) == IF v = 0 THEN 0
             ELSE NewtonSqrt(v, IF v < FxScale THEN FxScale ELSE v)


\* Math.atan on fixed-point magnitudes: the arctangent series to x^17 on the
\* reduced argument (|x| < 7/16), after the reduction
\*   atan(x) = atan(c) + atan((x - c) / (1 + c*x)),  c in {1/2, 1, 3/2, inf}
AtanOfHalf == 463648

AtanOfOne == 785398

AtanOfOneAndHalf == 982794

AtanOfInf == 1570796

SeriesTop == 17

RECURSIVE AtanSeries(_, _)
AtanSeries(x2, n) ==
    IF n > SeriesTop THEN 0
    ELSE (FxScale \div n) - MulAbs(x2, AtanSeries(x2, n + 2))

AtanSmall(x) == MulFx(x, AtanSeries(MulAbs(Abs(x), Abs(x)), 1))

AtanAbs(x) ==
    IF x < 437500 THEN AtanSmall(x)
    ELSE IF x < 687500
         THEN AtanOfHalf + AtanSmall(DivFx(2 * x - FxScale, 2 * FxScale + x))
    ELSE IF x < 1187500
         THEN AtanOfOne + AtanSmall(DivFx(x - FxScale, x + FxScale))
    ELSE IF x < 2437500
         THEN AtanOfOneAndHalf
              + AtanSmall(DivFx(2 * x - 3 * FxScale, 2 * FxScale + 3 * x))
    ELSE AtanOfInf + AtanSmall(DivFx(-FxScale, x))

AtanFx(x) == Sgn(x) * AtanAbs(Abs(x))

-----------------------------------------------------------------------------
(* The JavaScript operators the page uses, on tagged values *)

\* ToNumber: null becomes 0 wherever an arithmetic operand is expected
ToNumber(x) == IF x.k = "null" THEN Num(0) ELSE x

IsNaN(x) == x.k = "nan"

Finite(x) == x.k = "fin"

\* the global isFinite, which coerces its argument first
isFiniteCoercing(x) == ToNumber(x).k = "fin"

\* Number.isFinite: true only for a value of type number that is finite;
\* no coercion, so null is not finite
NumberIsFinite(x) == x.k = "fin"

Leq(a, b) ==
    CASE a.k = "inf" -> a.v = -1 \/ (b.k = "inf" /\ b.v = 1)
      [] b.k = "inf" -> b.v = 1
      [] OTHER       -> a.v <= b.v

MathMax(a, b) ==
    LET x == ToNumber(a)
        y == ToNumber(b)
    IN  IF IsNaN(x) \/ IsNaN(y) THEN NaN ELSE IF Leq(x, y) THEN y ELSE x

MathMin(a, b) ==
    LET x == ToNumber(a)
        y == ToNumber(b)
    IN  IF IsNaN(x) \/ IsNaN(y) THEN NaN ELSE IF Leq(x, y) THEN x ELSE y

Inf(sign) == IF sign < 0 THEN NegInfinity ELSE PosInfinity

Neg(a) == CASE a.k = "fin" -> Num(-a.v)
            [] a.k = "inf" -> Inf(-a.v)
            [] OTHER       -> a

Add(a, b) ==
    LET x == ToNumber(a)
        y == ToNumber(b)
    IN  CASE IsNaN(x) \/ IsNaN(y)           -> NaN
          [] x.k = "inf" /\ y.k = "inf"     -> IF x.v = y.v THEN x ELSE NaN
          [] x.k = "inf"                    -> x
          [] y.k = "inf"                    -> y
          [] OTHER                          -> Num(x.v + y.v)

Sub(a, b) == Add(a, Neg(ToNumber(b)))

Mul(a, b) ==
    LET x == ToNumber(a)
        y == ToNumber(b)
    IN  CASE IsNaN(x) \/ IsNaN(y)           -> NaN
          [] x.k = "inf" \/ y.k = "inf"     ->
                IF x.v = 0 \/ y.v = 0 THEN NaN ELSE Inf(Sgn(x.v) * Sgn(y.v))
          [] OTHER                          -> Num(MulFx(x.v, y.v))

\* finite operands with a non-zero divisor only
Div(a, b) ==
    LET x == ToNumber(a)
        y == ToNumber(b)
    IN  IF Finite(x) /\ Finite(y) /\ y.v # 0 THEN Num(DivFx(x.v, y.v)) ELSE NaN

\* multiplication by a literal given in units of 10^-8
MulE8(c, a) ==
    LET p == Mul(Num(c), a)
    IN  IF p.k = "fin" THEN Num(Sgn(p.v) * (Abs(p.v) \div 100)) ELSE p

MathSqrt(a) ==
    LET x == ToNumber(a)
    IN  CASE IsNaN(x)      -> NaN
          [] x.k = "inf"   -> IF x.v = 1 THEN x ELSE NaN
          [] x.v < 0       -> NaN
          [] OTHER         -> Num(SqrtFx(x.v))

MathAtan(a) ==
    LET x == ToNumber(a)
    IN  CASE IsNaN(x)      -> NaN
          [] x.k = "inf"   -> Num(x.v * AtanOfInf)
          [] OTHER         -> Num(AtanFx(x.v))

\* Math.pow(base, 1.5): NaN for a negative finite base
MathPow15(a) ==
    LET x == ToNumber(a)
    IN  CASE IsNaN(x)      -> NaN
          [] x.k = "inf"   -> PosInfinity
          [] x.v < 0       -> NaN
          [] OTHER         -> Num(MulFx(x.v, SqrtFx(x.v)))

-----------------------------------------------------------------------------
(* The estimator *)

\* whole degrees / percent as a number
Whole(n) == Num(n * FxScale)

TEMPERATURE_RANGE == [min |-> Whole(-40), max |-> Whole(60)]

HUMIDITY_RANGE == [min |-> Whole(0), max |-> Whole(100)]

clampLowerOnly(value, range) == MathMax(value, range.min)

clampUpperOnly(value, range) == MathMin(value, range.max)

clamp(value, range) == MathMin(MathMax(value, range.min), range.max)

\* the estimator with '+' for the '-' before Math.atan(RH - 1.676331)
calculateWetBulbSignSlip(tempCelsius, relHumidity) ==
    IF ~NumberIsFinite(tempCelsius) \/ ~NumberIsFinite(relHumidity) THEN NaN
    ELSE
    LET T      == clamp(tempCelsius, TEMPERATURE_RANGE)
        RH     == clamp(relHumidity, HUMIDITY_RANGE)
        rhSqrt == MathSqrt(Add(RH, Num(8313659)))
    IN  Sub(Add(Add(Add(Mul(T, MathAtan(Mul(Num(151977), rhSqrt))),
                        MathAtan(Add(T, RH))),
                    MathAtan(Sub(RH, Num(1676331)))),
                Mul(MulE8(391838, MathPow15(RH)),
                    MathAtan(Mul(Num(23101), RH)))),
            Num(4686035))

\* the estimator with '/' for the '*' after T
calculateWetBulbDivided(tempCelsius, relHumidity) ==
    IF ~NumberIsFinite(tempCelsius) \/ ~NumberIsFinite(relHumidity) THEN NaN
    ELSE
    LET T      == clamp(tempCelsius, TEMPERATURE_RANGE)
        RH     == clamp(relHumidity, HUMIDITY_RANGE)
        rhSqrt == MathSqrt(Add(RH, Num(8313659)))
    IN  Sub(Add(Sub(Add(Div(T, MathAtan(Mul(Num(151977), rhSqrt))),
                        MathAtan(Add(T, RH))),
                    MathAtan(Sub(RH, Num(1676331)))),
                Mul(MulE8(391838, MathPow15(RH)),
                    MathAtan(Mul(Num(23101), RH)))),
            Num(4686035))

\* the estimator reading the component's humidity in place of its parameter
calculateWetBulbCaptured(tempCelsius, relHumidity) ==
    IF ~NumberIsFinite(tempCelsius) \/ ~NumberIsFinite(humidity) THEN NaN
    ELSE
    LET T      == clamp(tempCelsius, TEMPERATURE_RANGE)
        RH     == clamp(humidity, HUMIDITY_RANGE)
        rhSqrt == MathSqrt(Add(RH, Num(8313659)))
    IN  Sub(Add(Sub(Add(Mul(T, MathAtan(Mul(Num(151977), rhSqrt))),
                        MathAtan(Add(T, RH))),
                    MathAtan(Sub(RH, Num(1676331)))),
                Mul(MulE8(391838, MathPow15(RH)),
                    MathAtan(Mul(Num(23101), RH)))),
            Num(4686035))

calculateWetBulb(tempCelsius, relHumidity) ==
    IF ~NumberIsFinite(tempCelsius) \/ ~NumberIsFinite(relHumidity) THEN NaN
    ELSE
    LET T      == clamp(tempCelsius, TEMPERATURE_RANGE)
        RH     == clamp(relHumidity, HUMIDITY_RANGE)
        rhSqrt == MathSqrt(Add(RH, Num(8313659)))
    IN  Sub(Add(Sub(Add(Mul(T, MathAtan(Mul(Num(151977), rhSqrt))),
                        MathAtan(Add(T, RH))),
                    MathAtan(Sub(RH, Num(1676331)))),
                Mul(MulE8(391838, MathPow15(RH)),
                    MathAtan(Mul(Num(23101), RH)))),
            Num(4686035))

\* value.toLocaleString(undefined, {maximumFractionDigits: 1}): rounded to the
\* nearest tenth, half away from zero; the fraction is printed only if it is
\* not zero.  frac is the sequence of decimal digits printed.
MaximumFractionDigits == 1

RECURSIVE Pow10(_)
Pow10(n) == IF n = 0 THEN 1 ELSE 10 * Pow10(n - 1)

RECURSIVE StripZeros(_)
StripZeros(ds) ==
    IF ds = <<>> THEN ds
    ELSE IF ds[Len(ds)] = 0 THEN StripZeros(SubSeq(ds, 1, Len(ds) - 1))
    ELSE ds

FracDigits(f, n) == StripZeros([i \in 1..n |-> (f \div Pow10(n - i)) % 10])

toLocaleString(v, digits) ==
    LET unit    == FxScale \div Pow10(digits)
        rounded == (Abs(v) + unit \div 2) \div unit
    IN  [dash  |-> FALSE,
         neg   |-> v < 0,
         whole |-> rounded \div Pow10(digits),
         frac  |-> FracDigits(rounded % Pow10(digits), digits)]

Dash == [dash |-> TRUE, neg |-> FALSE, whole |-> 0, frac |-> <<>>]

formatNumber(value) ==
    IF NumberIsFinite(value) THEN toLocaleString(value.v, MaximumFractionDigits)
    ELSE Dash

-----------------------------------------------------------------------------
(* The page component: initial state and handlers *)

Undefined == [k |-> "undefined", v |-> 0]

NoCall == [t |-> Undefined, h |-> Undefined, r |-> Undefined]

CallRecord(t, h, r) == [t |-> t, h |-> h, r |-> r]

\* what the user can type into the number fields (min and max do not restrain
\* typing); an emptied field binds null
TypedTemperatures == {Null, Whole(100)}

TypedHumidities == {Null, Whole(150)}

\* what the sliders can deliver: a value inside the range
SliderTemperatures == {Num(25500000)}

SliderHumidities == {Whole(60)}

StoredThemes == {"none", "light", "dark", "sepia"}

themeEnv == [storage |-> storage, documentElement |-> documentElement]

\* function updateTheme(), on the theme storage and the document element
updateTheme(inBrowser, dark, env) ==
    IF ~inBrowser THEN env
    ELSE LET theme == IF dark THEN "dark" ELSE "light"
         IN  [storage |-> theme,
              documentElement |-> [dark |-> dark, colorScheme |-> theme]]

\* the component variables each reactive statement names, which are the
\* ones whose invalidation re-runs it
UpdateThemeDeps == {}

WetBulbDepsTemperatureOnly == {"temperature"}

WetBulbDeps == {"temperature", "humidity"}

\* an assignment invalidates the variable only if the value changed
Invalidate(name, old, new) == IF old = new THEN dirty ELSE dirty \cup {name}

Init ==
    /\ browser \in BOOLEAN
    /\ phase = "created"
    /\ temperature = Whole(32)
    /\ humidity = Whole(60)
    /\ wetBulb = Undefined
    /\ shown = Dash
    /\ isDark = FALSE
    /\ mediaQuery = "null"
    /\ mediaQueryHandler = "null"
    /\ listeners = {}
    /\ storage \in (IF browser THEN StoredThemes ELSE {"none"})
    /\ documentElement = [dark |-> FALSE, colorScheme |-> ""]
    /\ systemDark \in (IF browser THEN BOOLEAN ELSE {FALSE})
    /\ dirty = {}
    /\ last = "script"
    /\ memo = NoCall
    /\ themeAtLoad = storage

\* $: updateTheme();  first run, while the component is initialised
InitUpdateTheme ==
    /\ phase = "created"
    /\ LET env == updateTheme(browser, isDark, themeEnv)
       IN  /\ storage' = env.storage
           /\ documentElement' = env.documentElement
    /\ phase' = "themed"
    /\ UNCHANGED <<browser, temperature, humidity, wetBulb, shown, isDark,
                   mediaQuery, mediaQueryHandler, listeners, systemDark,
                   dirty, last, memo, themeAtLoad>>

\* $: wetBulb = calculateWetBulb(temperature, humidity);  first run
InitWetBulb ==
    /\ phase = "themed"
    /\ wetBulb' = calculateWetBulb(temperature, humidity)
    /\ memo' \in {memo, CallRecord(temperature, humidity, wetBulb')}
    /\ phase' = "computed"
    /\ UNCHANGED <<browser, temperature, humidity, shown, isDark, mediaQuery,
                   mediaQueryHandler, listeners, storage, documentElement,
                   systemDark, dirty, last, themeAtLoad>>

\* the markup is rendered: {formatNumber(wetBulb)}
Render ==
    /\ phase = "computed"
    /\ shown' = formatNumber(wetBulb)
    /\ phase' = "ready"
    /\ UNCHANGED <<browser, temperature, humidity, wetBulb, isDark, mediaQuery,
                   mediaQueryHandler, listeners, storage, documentElement,
                   systemDark, dirty, last, memo, themeAtLoad>>

\* onMount(() => {...}): runs in the browser only
OnMount ==
    /\ phase = "ready"
    /\ browser
    /\ mediaQuery' = "mql"
    /\ isDark' = IF storage \in {"dark", "light"} THEN storage = "dark"
                 ELSE systemDark
    /\ mediaQueryHandler' = "handler"
    /\ listeners' = listeners \cup {"handler"}
    /\ dirty' = Invalidate("isDark", isDark, isDark')
    /\ phase' = "mounted"
    /\ last' = "onMount"
    /\ UNCHANGED <<browser, temperature, humidity, wetBulb, shown, storage,
                   documentElement, systemDark, memo, themeAtLoad>>

\* onDestroy handing removeEventListener a new closure, not the registered one
onDestroyListenersOtherClosure ==
    IF mediaQuery # "null" /\ mediaQueryHandler # "null"
    THEN listeners \ {"closure"}
    ELSE listeners

\* the listeners left on the media query by onDestroy
onDestroyListeners ==
    IF mediaQuery # "null" /\ mediaQueryHandler # "null"
    THEN listeners \ {mediaQueryHandler}
    ELSE listeners

\* onDestroy(() => {...}): the view is torn down
OnDestroy ==
    /\ phase = IF browser THEN "mounted" ELSE "ready"
    /\ dirty = {}
    /\ listeners' = onDestroyListeners
    /\ phase' = "destroyed"
    /\ last' = "onDestroy"
    /\ UNCHANGED <<browser, temperature, humidity, wetBulb, shown, isDark,
                   mediaQuery, mediaQueryHandler, storage, documentElement,
                   systemDark, dirty, memo, themeAtLoad>>

\* the user's controls exist while the view is mounted, and an event is
\* handled only after the flush the previous one scheduled (a microtask)
Interactive == phase = "mounted" /\ dirty = {}

\* <input type="number" bind:value={temperature}>
TypeTemperature(value) ==
    /\ Interactive
    /\ temperature' = value
    /\ dirty' = Invalidate("temperature", temperature, value)
    /\ last' = "temperature"
    /\ UNCHANGED <<browser, phase, humidity, wetBulb, shown, isDark, mediaQuery,
                   mediaQueryHandler, listeners, storage, documentElement,
                   systemDark, memo, themeAtLoad>>

\* <input type="range" bind:value={temperature}>
SlideTemperature(value) ==
    /\ Interactive
    /\ temperature' = value
    /\ dirty' = Invalidate("temperature", temperature, value)
    /\ last' = "temperature"
    /\ UNCHANGED <<browser, phase, humidity, wetBulb, shown, isDark, mediaQuery,
                   mediaQueryHandler, listeners, storage, documentElement,
                   systemDark, memo, themeAtLoad>>

\* <input type="number" bind:value={humidity}>
TypeHumidity(value) ==
    /\ Interactive
    /\ humidity' = value
    /\ dirty' = Invalidate("humidity", humidity, value)
    /\ last' = "humidity"
    /\ UNCHANGED <<browser, phase, temperature, wetBulb, shown, isDark,
                   mediaQuery, mediaQueryHandler, listeners, storage,
                   documentElement, systemDark, memo, themeAtLoad>>

\* <input type="range" bind:value={humidity}>
SlideHumidity(value) ==
    /\ Interactive
    /\ humidity' = value
    /\ dirty' = Invalidate("humidity", humidity, value)
    /\ last' = "humidity"
    /\ UNCHANGED <<browser, phase, temperature, wetBulb, shown, isDark,
                   mediaQuery, mediaQueryHandler, listeners, storage,
                   documentElement, systemDark, memo, themeAtLoad>>

\* <input type="checkbox" bind:checked={isDark}>
ToggleDark ==
    /\ Interactive
    /\ isDark' = ~isDark
    /\ dirty' = dirty \cup {"isDark"}
    /\ last' = "toggle"
    /\ UNCHANGED <<browser, phase, temperature, humidity, wetBulb, shown,
                   mediaQuery, mediaQueryHandler, listeners, storage,
                   documentElement, systemDark, memo, themeAtLoad>>

\* function clearStoredTheme(), the 'System' button
clearStoredTheme ==
    /\ Interactive
    /\ browser
    /\ storage' = "none"
    /\ isDark' = IF mediaQuery # "null" THEN systemDark ELSE FALSE
    /\ dirty' = Invalidate("isDark", isDark, isDark')
    /\ last' = "clearStoredTheme"
    /\ UNCHANGED <<browser, phase, temperature, humidity, wetBulb, shown,
                   mediaQuery, mediaQueryHandler, listeners, documentElement,
                   systemDark, memo, themeAtLoad>>

\* the system change with a handler that does not look at the stored theme
SystemChangeUnconditional ==
    /\ browser
    /\ dirty = {}
    /\ systemDark' = ~systemDark
    /\ isDark' = IF "handler" \in listeners THEN systemDark' ELSE isDark
    /\ dirty' = Invalidate("isDark", isDark, isDark')
    /\ last' = "systemChange"
    /\ UNCHANGED <<browser, phase, temperature, humidity, wetBulb, shown,
                   mediaQuery, mediaQueryHandler, listeners, storage,
                   documentElement, memo, themeAtLoad>>

\* the system colour scheme changes; the media query dispatches 'change' to
\* its listeners.  mediaQueryHandler = ({ matches }) => {...}
SystemChange ==
    /\ browser
    /\ dirty = {}
    /\ systemDark' = ~systemDark
    /\ isDark' = IF "handler" \in listeners /\ storage = "none"
                 THEN systemDark'
                 ELSE isDark
    /\ dirty' = Invalidate("isDark", isDark, isDark')
    /\ last' = "systemChange"
    /\ UNCHANGED <<browser, phase, temperature, humidity, wetBulb, shown,
                   mediaQuery, mediaQueryHandler, listeners, storage,
                   documentElement, memo, themeAtLoad>>

\* the scheduled flush: every reactive statement one of whose dependencies
\* was invalidated runs again, then the markup is updated
Flush ==
    /\ dirty # {}
    /\ LET env == IF dirty \cap UpdateThemeDeps # {}
                  THEN updateTheme(browser, isDark, themeEnv)
                  ELSE themeEnv
       IN  /\ storage' = env.storage
           /\ documentElement' = env.documentElement
    /\ IF dirty \cap WetBulbDeps # {}
       THEN /\ wetBulb' = calculateWetBulb(temperature, humidity)
            /\ memo' \in {memo, CallRecord(temperature, humidity, wetBulb')}
       ELSE UNCHANGED <<wetBulb, memo>>
    /\ shown' = formatNumber(wetBulb')
    /\ dirty' = {}
    /\ UNCHANGED <<browser, phase, temperature, humidity, isDark, mediaQuery,
                   mediaQueryHandler, listeners, systemDark, last, themeAtLoad>>

Next ==
    \/ InitUpdateTheme
    \/ InitWetBulb
    \/ Render
    \/ OnMount
    \/ OnDestroy
    \/ \E value \in TypedTemperatures : TypeTemperature(value)
    \/ \E value \in SliderTemperatures : SlideTemperature(value)
    \/ \E value \in TypedHumidities : TypeHumidity(value)
    \/ \E value \in SliderHumidities : SlideHumidity(value)
    \/ ToggleDark
    \/ clearStoredTheme
    \/ SystemChange
    \/ Flush

Spec == Init /\ [][Next]_vars

-----------------------------------------------------------------------------
(* The estimator on its own: calls with arguments of every kind *)

NonFinite == {NaN, PosInfinity, NegInfinity, Null}

FnTemperatures ==
    {Whole(t) : t \in {-100, -40, 0, 25, 32, 50, 60, 100}} \cup NonFinite

FnHumidities ==
    {Whole(h) : h \in {-10, 0, 10, 50, 60, 90, 99, 100, 150}} \cup NonFinite

InitFn ==
    /\ browser = FALSE
    /\ phase = "call"
    /\ temperature \in FnTemperatures
    /\ humidity \in FnHumidities
    /\ wetBulb = Undefined
    /\ shown = Dash
    /\ isDark = FALSE
    /\ mediaQuery = "null"
    /\ mediaQueryHandler = "null"
    /\ listeners = {}
    /\ storage = "none"
    /\ documentElement = [dark |-> FALSE, colorScheme |-> ""]
    /\ systemDark = FALSE
    /\ dirty = {}
    /\ last = "script"
    /\ memo = NoCall
    /\ themeAtLoad = "none"

\* calculateWetBulb(temperature, humidity) is called and returns
FnCall ==
    /\ phase = "call"
    /\ wetBulb' = calculateWetBulb(temperature, humidity)
    /\ phase' = "return"
    /\ UNCHANGED <<browser, temperature, humidity, shown, isDark, mediaQuery,
                   mediaQueryHandler, listeners, storage, documentElement,
                   systemDark, dirty, last, memo, themeAtLoad>>

\* the caller keeps the call it made and prepares another, changing one
\* argument
FnAgain ==
    /\ phase = "return"
    /\ memo' = CallRecord(temperature, humidity, wetBulb)
    /\ \/ temperature' \in FnTemperatures /\ humidity' = humidity
       \/ humidity' \in FnHumidities /\ temperature' = temperature
    /\ wetBulb' = Undefined
    /\ phase' = "call"
    /\ UNCHANGED <<browser, shown, isDark, mediaQuery, mediaQueryHandler,
                   listeners, storage, documentElement, systemDark, dirty,
                   last, themeAtLoad>>

NextFn == FnCall \/ FnAgain

SpecFn == InitFn /\ [][NextFn]_vars

-----------------------------------------------------------------------------
(* Properties of the estimator, under SpecFn *)

Returned == phase = "return"

FiniteCall == Returned /\ Finite(temperature) /\ Finite(humidity)

\* raise a value below lo to lo, lower a value above hi to hi
Saturate(n, lo, hi) == IF n < lo THEN lo ELSE IF n > hi THEN hi ELSE n

SaturateTemperature(x) == Num(Saturate(x.v, -40 * FxScale, 60 * FxScale))

SaturateHumidity(x) == Num(Saturate(x.v, 0, 100 * FxScale))

\* C1: a call with finite arguments returns what the call with the
\* temperature saturated into [-40, 60] and the humidity saturated into
\* [0, 100] returns; and two calls whose arguments saturate to the same pair
\* return the same value (so (100, 60) and (60, 60), (-100, 60) and (-40, 60),
\* (25, 150) and (25, 100), (25, -10) and (25, 0) agree).
C1_Clamping ==
    FiniteCall =>
        /\ wetBulb = calculateWetBulb(SaturateTemperature(temperature),
                                      SaturateHumidity(humidity))
        /\ (/\ Finite(memo.t) /\ Finite(memo.h)
            /\ SaturateTemperature(memo.t) = SaturateTemperature(temperature)
            /\ SaturateHumidity(memo.h) = SaturateHumidity(humidity))
           => memo.r = wetBulb

\* (100, 60) has just returned what the earlier call (60, 60) returned
C1_Witness ==
    /\ Returned
    /\ temperature = Whole(100) /\ humidity = Whole(60)
    /\ memo.t = Whole(60) /\ memo.h = Whole(60)
    /\ Finite(wetBulb) /\ wetBulb = memo.r

\* C2: a call with a non-finite argument (NaN, an infinity or null) returns
\* NaN, the "undefined" marker, whatever the other argument is.
C2_NonFinitePropagates ==
    (Returned /\ (~Finite(temperature) \/ ~Finite(humidity))) => wetBulb = NaN

\* an emptied temperature field with humidity 100 has returned the marker
C2_Witness ==
    /\ Returned
    /\ temperature = Null /\ humidity = Whole(100)
    /\ wetBulb = NaN

\* C3: the result is the marker exactly when an argument is not finite; for
\* finite arguments, in the domain or outside it, the result is a finite
\* number, the square root is taken of a non-negative number and the 1.5
\* power has a non-negative base.
C3_OnlyNonFiniteIsUndefined ==
    Returned =>
        /\ IsNaN(wetBulb) <=> (~Finite(temperature) \/ ~Finite(humidity))
        /\ (Finite(temperature) /\ Finite(humidity)) =>
              /\ Finite(wetBulb)
              /\ clamp(humidity, HUMIDITY_RANGE).v >= 0
              /\ Add(clamp(humidity, HUMIDITY_RANGE), Num(8313659)).v >= 0

\* a call far below the domain in both arguments has returned a number
C3_Witness ==
    /\ Returned
    /\ temperature = Whole(-100) /\ humidity = Whole(-10)
    /\ Finite(wetBulb)

\* the formula as the specification writes it, on a temperature T and a
\* humidity RH:  s = sqrt(RH + 8.313659),
\*   T*atan(0.151977*s) + atan(T + RH) - atan(RH - 1.676331)
\*     + 0.00391838 * RH^1.5 * atan(0.023101*RH) - 4.686035
Stull(T, RH) ==
    LET s  == MathSqrt(Add(RH, Num(8313659)))
        t1 == Mul(T, MathAtan(Mul(Num(151977), s)))
        t2 == MathAtan(Add(T, RH))
        t3 == MathAtan(Sub(RH, Num(1676331)))
        t4 == Mul(MulE8(391838, MathPow15(RH)), MathAtan(Mul(Num(23101), RH)))
    IN  Sub(Add(Sub(Add(t1, t2), t3), t4), Num(4686035))

InDomain(t, h) ==
    /\ Finite(t) /\ -40 * FxScale <= t.v /\ t.v <= 60 * FxScale
    /\ Finite(h) /\ 0 <= h.v /\ h.v <= 100 * FxScale

\* C4: for finite arguments the result is the Stull formula on the saturated
\* temperature and humidity (arctangents in radians); for arguments already
\* in the domain it is the formula on the arguments themselves.
C4_FormulaConformance ==
    FiniteCall =>
        /\ wetBulb = Stull(SaturateTemperature(temperature),
                           SaturateHumidity(humidity))
        /\ InDomain(temperature, humidity) => wetBulb = Stull(temperature, humidity)

\* (50, 99), inside the domain, has returned the formula's value, 50.03
C4_Witness ==
    /\ Returned
    /\ temperature = Whole(50) /\ humidity = Whole(99)
    /\ Finite(wetBulb)
    /\ 50 * FxScale <= wetBulb.v /\ wetBulb.v <= 50 * FxScale + FxScale \div 10

MonotoneSample == {Whole(10), Whole(50), Whole(90)}

\* C9: at 25 degrees, of two calls with humidities among 10, 50 and 90 the
\* one with the higher humidity does not return less.
C9_MonotoneInHumidity ==
    (/\ Returned
     /\ temperature = Whole(25) /\ memo.t = Whole(25)
     /\ humidity \in MonotoneSample /\ memo.h \in MonotoneSample
     /\ memo.h.v <= humidity.v)
    => (Finite(memo.r) /\ Finite(wetBulb) /\ memo.r.v <= wetBulb.v)

\* (25, 90) has returned more than the earlier (25, 50)
C9_Witness ==
    /\ Returned
    /\ temperature = Whole(25) /\ humidity = Whole(90)
    /\ memo.t = Whole(25) /\ memo.h = Whole(50)
    /\ Finite(memo.r) /\ Finite(wetBulb) /\ memo.r.v < wetBulb.v

-----------------------------------------------------------------------------
(* Properties of the page, under Spec *)

\* a step in which calculateWetBulb is called
CallStep ==
    \/ InitWetBulb
    \/ Flush /\ dirty \cap WetBulbDeps # {}

\* C5: a call returns what an earlier call with the same arguments returned,
\* whatever happened in between; in every state, calling again with the
\* arguments of an earlier call would return what that call returned; and the
\* step that makes a call leaves temperature, humidity, isDark, the stored
\* theme and the registered listeners as they were.
C5_Purity ==
    /\ [](memo # NoCall => calculateWetBulb(memo.t, memo.h) = memo.r)
    /\ [][CallStep =>
            /\ (memo.t = temperature /\ memo.h = humidity) => wetBulb' = memo.r
            /\ UNCHANGED <<temperature, humidity, isDark, storage, listeners>>]_vars

\* the initial arguments (32, 60) were used again after the humidity had been
\* edited, the theme toggled and the system scheme changed, with the same result
C5_Witness ==
    /\ phase = "mounted" /\ dirty = {}
    /\ last = "humidity"
    /\ temperature = Whole(32) /\ humidity = Whole(60)
    /\ memo = CallRecord(Whole(32), Whole(60), wetBulb)
    /\ isDark /\ systemDark /\ storage = "none"

Settled == phase \in {"ready", "mounted"} /\ dirty = {}

\* C6: once the reactive update has run, wetBulb is calculateWetBulb of the
\* current temperature and humidity; the page shows the dash exactly when
\* that value is NaN, and otherwise that value to the nearest tenth with at
\* most one decimal digit.
C6_LiveResult ==
    Settled =>
        /\ wetBulb = calculateWetBulb(temperature, humidity)
        /\ shown.dash <=> IsNaN(wetBulb)
        /\ ~shown.dash =>
              /\ Finite(wetBulb)
              /\ Len(shown.frac) <= 1
              /\ shown.neg = (wetBulb.v < 0)
              /\ LET tenths == IF shown.frac = <<>> THEN 0 ELSE shown.frac[1]
                     value  == shown.whole * FxScale + tenths * (FxScale \div 10)
                 IN  Abs(Abs(wetBulb.v) - value) <= FxScale \div 20

\* the humidity field was emptied after a number had been shown: the dash
C6_Witness ==
    /\ phase = "mounted" /\ dirty = {}
    /\ last = "humidity" /\ humidity = Null
    /\ Finite(temperature)
    /\ wetBulb = NaN /\ shown = Dash

ThemeOf(dark) == IF dark THEN "dark" ELSE "light"

\* C7: in a browser, after the user has toggled the dark-mode checkbox and the
\* reactive update has run, the stored theme is 'dark' if isDark and 'light'
\* if not.
C7_ThemePersisted ==
    (browser /\ phase = "mounted" /\ dirty = {} /\ last = "toggle")
    => storage = ThemeOf(isDark)

\* C8: the listener registered is the handler onDestroy removes: there is
\* never more than one listener, it is mediaQueryHandler, none is left once
\* the view is torn down, and from then on no step changes isDark.
C8_ListenerDisposed ==
    /\ [](Cardinality(listeners) <= 1)
    /\ [](listeners \subseteq {mediaQueryHandler})
    /\ [](phase = "destroyed" => listeners = {})
    /\ [][phase = "destroyed" => isDark' = isDark]_vars

\* the system scheme changed after the teardown of a view that had registered
\* its handler and had no stored theme: isDark did not follow
C8_Witness ==
    /\ phase = "destroyed" /\ last = "systemChange"
    /\ mediaQueryHandler = "handler" /\ listeners = {}
    /\ storage = "none"
    /\ isDark # systemDark

\* C10: in a browser, when onMount has finished: if 'dark' or 'light' was
\* stored when the page started loading, isDark is true for 'dark' and false
\* for 'light' and the stored value is what it was; if nothing was stored,
\* isDark is the system preference.
C10_ThemeInitialised ==
    (browser /\ phase = "mounted" /\ last = "onMount") =>
        /\ themeAtLoad \in {"dark", "light"} =>
              (isDark = (themeAtLoad = "dark") /\ storage = themeAtLoad)
        /\ themeAtLoad = "none" => isDark = systemDark

\* C11: while the view is mounted, a system colour-scheme change leaves
\* isDark as it was if a theme is stored and sets it to the new system
\* preference if none is; once 'System' has been pressed no theme is stored
\* and isDark is the system preference; and as long as no theme is stored,
\* isDark is the system preference again after every system change.
C11_OverrideBeatsSystem ==
    /\ [][(phase = "mounted" /\ systemDark' # systemDark) =>
            /\ storage' = storage
            /\ storage # "none" => isDark' = isDark
            /\ storage = "none" => isDark' = systemDark']_vars
    /\ [](last = "clearStoredTheme" => (storage = "none" /\ isDark = systemDark))
    /\ []((phase = "mounted" /\ last = "systemChange" /\ storage = "none")
          => isDark = systemDark)

\* 'System' was pressed, which alone leaves a mounted view without a stored
\* theme, and then the system turned dark: isDark followed
C11_Witness ==
    /\ phase = "mounted" /\ dirty = {}
    /\ last = "systemChange"
    /\ storage = "none"
    /\ systemDark /\ isDark

=============================================================================
